---- MODULE Spec2Model ----
(***************************************************************************)
(* Binance futures trading helper: one run of the command-line front end   *)
(* (cli.py main) or one script run of the form front end (ui.py main),     *)
(* over the exchange adapter BasicBot (trading_bot.py).                    *)
(*                                                                         *)
(* Numbers are modelled as integers in abstract units: a quantity q and a  *)
(* price p stand for the floats the code multiplies, and the notional      *)
(* threshold 100 is kept as the code writes it.                            *)
(***************************************************************************)
EXTENDS Integers, Sequences, FiniteSets, TLC

VARIABLES
    caller,     \* "cli" (cli.py main), "ui" (ui.py main), "api" (BasicBot used directly)
    input,      \* what the operator typed: command-line strings or widget values
    args,       \* the parsed values the run works with (argparse namespace / widget locals)
    pc,         \* position of the run
    calls,      \* the remote calls made so far, in order, each with its parameters
    offset,     \* client.timestamp_offset
    sync,       \* what the server-time fetch answered and the local clock read then
    mark,       \* what the mark-price fetch answered
    guard,      \* result of the notional check: "none", "allow", "block"
    response,   \* what the exchange answered to the order submission (or the account query)
    outcome,    \* how the run ended
    shown,      \* what the front end rendered about a rejection: code, message, guidance
    warnings    \* warnings printed or logged

vars == <<caller, input, args, pc, calls, offset, sync, mark, guard, response,
          outcome, shown, warnings>>

----------------------------------------------------------------------------
(* Bounds of the model *)

MaxQty == 2          \* quantities typed range over -1 .. MaxQty
MaxTime == 1         \* clock readings (server and local) range over 0 .. MaxTime

(* Program constants *)

MinNotional == 100       \* cli.py:89, ui.py:26
RecvWindow == 5000       \* trading_bot.py:121, 157, 198
MinNotionalCode == -4164 \* cli.py:172, ui.py:182

----------------------------------------------------------------------------
(* Values.  A typed value is absent, not a number, or a number. *)

None == [tag |-> "none", val |-> 0]
Bad == [tag |-> "bad", val |-> 0]
Num(v) == [tag |-> "num", val |-> v]

IsNone(x) == x.tag = "none"
IsNum(x) == x.tag = "num"

Quantities == (-1) .. MaxQty
Prices == {-1, 0, 49, 50, 99, 100}
StopPrices == {0, 50}
MarkPrices == {49, 50, 100}
Symbols == {"", "BTCUSDT"}
Sides == {"BUY", "SELL"}
Kinds == {"MARKET", "LIMIT", "STOP_LIMIT"}
Tifs == {"GTC", "IOC", "FOK"}

Typed(S) == {None, Bad} \cup {Num(v) : v \in S}

(* str(price): the decimal text of a number, a value distinct from the number *)
Str(v) == <<"str", v>>

----------------------------------------------------------------------------
(* What the exchange (through the client library) can answer. *)

PingResponses == {"ok", "fail"}

(* get_server_time: a payload with serverTime, a payload without it, or an error *)
TimeResponses ==
    {[kind |-> "ok", serverTime |-> t] : t \in 0 .. MaxTime}
        \cup {[kind |-> "malformed", serverTime |-> 0], [kind |-> "error", serverTime |-> 0]}

(* futures_mark_price: a payload with markPrice, a payload without it, or an error *)
MarkResponses ==
    {[kind |-> "ok", markPrice |-> p] : p \in MarkPrices}
        \cup {[kind |-> "malformed", markPrice |-> 0], [kind |-> "error", markPrice |-> 0]}

NoMark == [kind |-> "none", markPrice |-> 0]

(* futures_create_order / futures_account: the payload, BinanceAPIException with *)
(* its code and message, BinanceRequestException, or any other exception         *)
ApiErrors ==
    {[kind |-> "api_error", code |-> MinNotionalCode, message |-> "notional too small"],
     [kind |-> "api_error", code |-> -1021, message |-> "timestamp outside recvWindow"],
     [kind |-> "api_error", code |-> -4146, message |-> "invalid order"]}

Payload == [kind |-> "payload", code |-> 0, message |-> ""]
RequestExc == [kind |-> "request_exc", code |-> 0, message |-> "invalid response"]
OtherExc == [kind |-> "other_exc", code |-> 0, message |-> "connection error"]
NoResponse == [kind |-> "none", code |-> 0, message |-> ""]

Responses == {Payload, RequestExc, OtherExc} \cup ApiErrors

----------------------------------------------------------------------------
(* The adapter: the parameters each operation hands to the client library. *)

(* variant: a MARKET request that also carries a time in force *)
MarketOrderParamsWithTif(symbol, side, quantity) ==
    [symbol |-> symbol, side |-> side, type |-> "MARKET", timeInForce |-> "GTC",
     quantity |-> quantity, recvWindow |-> RecvWindow]

MarketOrderParams(symbol, side, quantity) ==
    [symbol |-> symbol, side |-> side, type |-> "MARKET",
     quantity |-> quantity, recvWindow |-> RecvWindow]

LimitOrderParams(symbol, side, quantity, price, time_in_force) ==
    [symbol |-> symbol, side |-> side, type |-> "LIMIT",
     timeInForce |-> time_in_force, quantity |-> quantity,
     price |-> Str(price), recvWindow |-> RecvWindow]

StopLimitOrderParams(symbol, side, quantity, price, stop_price, time_in_force) ==
    [symbol |-> symbol, side |-> side, type |-> "STOP",
     timeInForce |-> time_in_force, quantity |-> quantity,
     price |-> Str(price), stopPrice |-> Str(stop_price),
     workingType |-> "MARK_PRICE", recvWindow |-> RecvWindow]

(* a call made with no keyword arguments *)
NoParams == <<>>

Call(api, params) == [api |-> api, params |-> params]

(* the request the front ends' dispatch on the order type sends *)
OrderParams(a) ==
    CASE a.type = "MARKET" ->
            MarketOrderParams(a.symbol, a.side, a.quantity.val)
      [] a.type = "LIMIT" ->
            LimitOrderParams(a.symbol, a.side, a.quantity.val, a.price.val, a.tif)
      [] a.type = "STOP_LIMIT" ->
            StopLimitOrderParams(a.symbol, a.side, a.quantity.val, a.price.val,
                                 a.stop_price.val, a.tif)

----------------------------------------------------------------------------
(* Front ends: parsing and the required-field checks. *)

(* parse_positive_float: a float greater than zero, or an argparse error *)
ParsePositiveFloat(value) == IsNum(value) /\ value.val > 0

(* get_arguments: --quantity is required; --price and --stop_price are optional, *)
(* and each one given goes through parse_positive_float                         *)
ArgumentsAccepted(in) ==
    /\ ParsePositiveFloat(in.quantity)
    /\ IsNone(in.price) \/ ParsePositiveFloat(in.price)
    /\ IsNone(in.stop_price) \/ ParsePositiveFloat(in.stop_price)

(* Python truth value of an optional number: None and 0.0 are false *)
Falsy(x) == IsNone(x) \/ x.val = 0

(* cli.py main: the checks depending on the order type *)
CliFieldError(a) ==
    \/ a.type = "LIMIT" /\ IsNone(a.price)
    \/ a.type = "STOP_LIMIT" /\ (IsNone(a.price) \/ IsNone(a.stop_price))

(* ui.py main: the checks under the "Place order" button *)
UiFieldError(a) ==
    \/ a.symbol = ""
    \/ a.quantity.val <= 0
    \/ a.type = "LIMIT" /\ (Falsy(a.price) \/ a.price.val <= 0)
    \/ a.type = "STOP_LIMIT"
          /\ (Falsy(a.price) \/ a.price.val <= 0
                \/ Falsy(a.stop_price) \/ a.stop_price.val <= 0)

FieldError(c, a) == IF c = "cli" THEN CliFieldError(a) ELSE UiFieldError(a)

----------------------------------------------------------------------------
(* Notional check (validate_notional / validate_notional_size). *)

(* the price argument the front end passes: None for MARKET, the limit price otherwise *)
GuardPrice(a) == IF a.type = "MARKET" THEN None ELSE a.price

(* the try block: TRUE when px and the notional could be computed *)
EstimateComputed(price, m) == IF IsNone(price) THEN m.kind = "ok" ELSE TRUE

EffectivePrice(price, m) == IF IsNone(price) THEN m.markPrice ELSE price.val

Notional(px, qty) == px * qty

(* variant: the boundary value counted as too small *)
NotionalTooSmallInclusive(notional) == notional <= MinNotional

NotionalTooSmall(notional) == notional < MinNotional

(* variant: a check that cannot be computed blocks the order (fail-closed) *)
NotionalResultFailClosed(price, m, qty) ==
    IF ~EstimateComputed(price, m) THEN "block"
    ELSE IF NotionalTooSmall(Notional(EffectivePrice(price, m), qty)) THEN "block"
    ELSE "allow"

(* the value the check returns: True (allow) or False (block) *)
NotionalResult(price, m, qty) ==
    IF ~EstimateComputed(price, m) THEN "allow"
    ELSE IF NotionalTooSmall(Notional(EffectivePrice(price, m), qty)) THEN "block"
    ELSE "allow"

----------------------------------------------------------------------------
(* Result rendering: the except clauses around the order call. *)

Classify(r) ==
    CASE r.kind = "payload" -> "Accepted"
      [] r.kind = "api_error" -> "RejectedByExchange"
      [] r.kind = "request_exc" -> "TransportFailure"
      [] OTHER -> "UnclassifiedFailure"

(* variant: the guidance keyed on a mistyped code *)
NotionalHintMistyped(r) == r.kind = "api_error" /\ r.code = -4146

(* the extra guidance printed for the minimum-notional rejection *)
NotionalHint(r) == r.kind = "api_error" /\ r.code = MinNotionalCode

NothingShown == [code |-> 0, message |-> "", hint |-> FALSE]

Shown(r) ==
    IF r.kind = "api_error"
    THEN [code |-> r.code, message |-> r.message, hint |-> NotionalHint(r)]
    ELSE [code |-> 0, message |-> r.message, hint |-> NotionalHint(r)]

(* variant: the order call repeated after a request failure *)
AfterOrderRetry(r) == IF r.kind = "request_exc" THEN "order" ELSE "done"

(* where the run goes after the order call has returned or raised *)
AfterOrder(r) == "done"

----------------------------------------------------------------------------
(* Clock synchronisation (_sync_time_with_server). *)

(* variant: the offset computed with the operands swapped *)
SyncedOffsetSwapped(prev, r, local_ms) ==
    IF r.kind = "ok" THEN local_ms - r.serverTime ELSE prev

(* timestamp_offset after the attempt: set only when serverTime could be read *)
SyncedOffset(prev, r, local_ms) ==
    IF r.kind = "ok" THEN r.serverTime - local_ms ELSE prev

(* "except Exception" catches every failure of the attempt: nothing is re-raised *)
SyncRaises(r) == FALSE

NoSync == [kind |-> "none", serverTime |-> 0, local_ms |-> 0]

(* the next step of the caller once BasicBot.__init__ has returned *)
AfterInit(c) ==
    CASE c = "cli" -> "check_fields"
      [] c = "ui" -> "sidebar"
      [] OTHER -> "call"

(* whether the run goes on to the order call after the notional check *)
AfterGuard(g) == IF g = "block" THEN "done" ELSE "order"

----------------------------------------------------------------------------
(* Initial states: what the operator typed. *)

NoArgs ==
    [symbol |-> "", side |-> "BUY", type |-> "MARKET", quantity |-> None,
     price |-> None, stop_price |-> None, tif |-> "GTC"]

ArgsOf(in) ==
    [symbol |-> in.symbol, side |-> in.side, type |-> in.type,
     quantity |-> in.quantity, price |-> in.price, stop_price |-> in.stop_price,
     tif |-> in.tif]

(* command line: any text may follow --quantity, --price and --stop_price *)
CliInputs ==
    [button : {"run"}, symbol : Symbols, side : Sides, type : Kinds,
     quantity : Typed(Quantities), price : Typed(Prices),
     stop_price : Typed(StopPrices), tif : Tifs]

NonNeg(S) == {v \in S : v >= 0}

(* form: number inputs have min_value 0.0; the limit price input exists only for *)
(* LIMIT and STOP_LIMIT, the stop price input only for STOP_LIMIT                *)
UiInputs ==
    {in \in [button : {"none", "load_account", "place_order"}, symbol : Symbols,
             side : Sides, type : Kinds,
             quantity : {Num(v) : v \in NonNeg(Quantities)},
             price : {None} \cup {Num(v) : v \in NonNeg(Prices)},
             stop_price : {None} \cup {Num(v) : v \in NonNeg(StopPrices)},
             tif : Tifs] :
        /\ IsNone(in.price) <=> in.type = "MARKET"
        /\ IsNone(in.stop_price) <=> in.type # "STOP_LIMIT"}

(* a direct call of one adapter operation with arbitrary numbers *)
ApiInputs ==
    {in \in [button : {"get_account_info", "place_market_order", "place_limit_order",
                       "place_stop_limit_order"},
             symbol : {"BTCUSDT"}, side : Sides, type : Kinds,
             quantity : {Num(v) : v \in Quantities},
             price : {None} \cup {Num(v) : v \in Prices},
             stop_price : {None} \cup {Num(v) : v \in StopPrices},
             tif : Tifs] :
        /\ in.type = (CASE in.button = "place_limit_order" -> "LIMIT"
                        [] in.button = "place_stop_limit_order" -> "STOP_LIMIT"
                        [] OTHER -> "MARKET")
        /\ IsNone(in.price) <=> in.type = "MARKET"
        /\ IsNone(in.stop_price) <=> in.type # "STOP_LIMIT"
        /\ in.button = "get_account_info" =>
              in.quantity = Num(1) /\ in.side = "BUY" /\ in.tif = "GTC"}

InitCommon ==
    /\ args = NoArgs
    /\ calls = <<>>
    /\ offset = 0
    /\ sync = NoSync
    /\ mark = NoMark
    /\ guard = "none"
    /\ response = NoResponse
    /\ outcome = "none"
    /\ shown = NothingShown
    /\ warnings = {}

Init ==
    /\ \/ caller = "cli" /\ input \in CliInputs /\ pc = "get_arguments"
       \/ caller = "ui" /\ input \in UiInputs /\ pc = "create_client"
    /\ InitCommon

InitAdapter ==
    /\ caller = "api" /\ input \in ApiInputs /\ pc = "create_client"
    /\ InitCommon

----------------------------------------------------------------------------
(* Steps of a run. *)

(* cli.py main, line 116: argparse rejects the command line (exit status 2) or *)
(* hands over the namespace                                                    *)
GetArguments ==
    /\ pc = "get_arguments"
    /\ IF ArgumentsAccepted(input)
       THEN /\ args' = ArgsOf(input)
            /\ pc' = "create_client"
            /\ outcome' = outcome
       ELSE /\ args' = args
            /\ pc' = "done"
            /\ outcome' = "LocalValidationFailure"
    /\ UNCHANGED <<caller, input, calls, offset, sync, mark, guard, response,
                   shown, warnings>>

(* BasicBot.__init__, steps 1-3: Client("", "") pings the exchange; no handler *)
(* surrounds it here, in create_bot_from_config or in either main              *)
CreateClient ==
    /\ pc = "create_client"
    /\ \E r \in PingResponses :
          /\ calls' = Append(calls, Call("ping", NoParams))
          /\ IF r = "ok"
             THEN pc' = "sync_time" /\ outcome' = outcome
             ELSE pc' = "done" /\ outcome' = "Crash"
    /\ UNCHANGED <<caller, input, args, offset, sync, mark, guard, response,
                   shown, warnings>>

(* BasicBot.__init__, step 4: _sync_time_with_server, then the constructor returns *)
SyncTimeWithServer ==
    /\ pc = "sync_time"
    /\ \E r \in TimeResponses, local_ms \in 0 .. MaxTime :
          /\ calls' = Append(calls, Call("get_server_time", NoParams))
          /\ sync' = [kind |-> r.kind, serverTime |-> r.serverTime,
                      local_ms |-> IF r.kind = "error" THEN 0 ELSE local_ms]
          /\ offset' = SyncedOffset(offset, r, local_ms)
          /\ warnings' = IF r.kind = "ok" THEN warnings
                         ELSE warnings \cup {"could not sync time"}
          /\ IF SyncRaises(r)
             THEN pc' = "done" /\ outcome' = "Crash"
             ELSE pc' = AfterInit(caller) /\ outcome' = outcome
    /\ UNCHANGED <<caller, input, args, mark, guard, response, shown>>

(* ui.py main, lines 65-68: the sidebar; render_account_box when its button is *)
(* the one clicked, whose handler turns every failure into an error box         *)
RenderSidebar ==
    /\ pc = "sidebar"
    /\ IF input.button = "load_account"
       THEN \E r \in Responses :
               /\ calls' = Append(calls, Call("futures_account", NoParams))
               /\ response' = r
               /\ outcome' = IF r.kind = "payload" THEN "AccountShown"
                             ELSE "AccountErrorShown"
       ELSE UNCHANGED <<calls, response, outcome>>
    /\ pc' = "form"
    /\ UNCHANGED <<caller, input, args, offset, sync, mark, guard, shown, warnings>>

(* ui.py main, lines 70-116: the form widgets and the "Place order" button *)
RenderForm ==
    /\ pc = "form"
    /\ args' = ArgsOf(input)
    /\ pc' = IF input.button = "place_order" THEN "check_fields" ELSE "done"
    /\ UNCHANGED <<caller, input, calls, offset, sync, mark, guard, response,
                   outcome, shown, warnings>>

(* cli.py main, lines 119-126; ui.py main, lines 117-133 *)
CheckRequiredFields ==
    /\ pc = "check_fields"
    /\ IF FieldError(caller, args)
       THEN pc' = "done" /\ outcome' = "LocalValidationFailure"
       ELSE pc' = "notional" /\ outcome' = outcome
    /\ UNCHANGED <<caller, input, args, calls, offset, sync, mark, guard,
                   response, shown, warnings>>

(* cli.py main, lines 128-135 with validate_notional; ui.py main, lines 135-141 *)
(* with validate_notional_size                                                  *)
ValidateNotional ==
    /\ pc = "notional"
    /\ LET price == GuardPrice(args)
       IN \E m \in (IF IsNone(price) THEN MarkResponses ELSE {NoMark}) :
             /\ mark' = m
             /\ calls' = IF IsNone(price)
                         THEN Append(calls, Call("futures_mark_price",
                                                 [symbol |-> args.symbol]))
                         ELSE calls
             /\ guard' = NotionalResult(price, m, args.quantity.val)
             /\ warnings' = IF EstimateComputed(price, m) THEN warnings
                            ELSE warnings \cup {"could not check notional"}
             /\ pc' = AfterGuard(guard')
             /\ outcome' = IF pc' = "done" THEN "GuardBlocked" ELSE outcome
    /\ UNCHANGED <<caller, input, args, offset, sync, response, shown>>

(* cli.py main, lines 137-183; ui.py main, lines 143-192: the adapter operation *)
(* for the order type and the except clauses around it                          *)
PlaceOrder ==
    /\ pc = "order"
    /\ \E r \in Responses :
          /\ calls' = Append(calls, Call("futures_create_order", OrderParams(args)))
          /\ response' = r
          /\ outcome' = Classify(r)
          /\ shown' = Shown(r)
          /\ pc' = AfterOrder(r)
    /\ UNCHANGED <<caller, input, args, offset, sync, mark, guard, warnings>>

Next ==
    \/ GetArguments
    \/ CreateClient
    \/ SyncTimeWithServer
    \/ RenderSidebar
    \/ RenderForm
    \/ CheckRequiredFields
    \/ ValidateNotional
    \/ PlaceOrder

Spec == Init /\ [][Next]_vars

----------------------------------------------------------------------------
(* The adapter's operations called directly. *)

(* what an adapter operation does with the library's answer: return it or let *)
(* the exception out (logged and re-raised, or not caught at all)             *)
AdapterResult(r) == IF r.kind = "payload" THEN "Returned" ELSE "Raised"

(* the library call of an adapter operation and what comes back to the caller *)
AdapterCall(api, params) ==
    /\ args' = ArgsOf(input)
    /\ \E r \in Responses :
          /\ calls' = Append(calls, Call(api, params))
          /\ response' = r
          /\ outcome' = AdapterResult(r)
    /\ pc' = "done"
    /\ UNCHANGED <<caller, input, offset, sync, mark, guard, shown, warnings>>

GetAccountInfo ==
    /\ pc = "call"
    /\ input.button = "get_account_info"
    /\ AdapterCall("futures_account", NoParams)

PlaceMarketOrder ==
    /\ pc = "call"
    /\ input.button = "place_market_order"
    /\ AdapterCall("futures_create_order",
                   MarketOrderParams(input.symbol, input.side, input.quantity.val))

PlaceLimitOrder ==
    /\ pc = "call"
    /\ input.button = "place_limit_order"
    /\ AdapterCall("futures_create_order",
                   LimitOrderParams(input.symbol, input.side, input.quantity.val,
                                    input.price.val, input.tif))

PlaceStopLimitOrder ==
    /\ pc = "call"
    /\ input.button = "place_stop_limit_order"
    /\ AdapterCall("futures_create_order",
                   StopLimitOrderParams(input.symbol, input.side, input.quantity.val,
                                        input.price.val, input.stop_price.val,
                                        input.tif))

NextAdapter ==
    \/ CreateClient
    \/ SyncTimeWithServer
    \/ GetAccountInfo
    \/ PlaceMarketOrder
    \/ PlaceLimitOrder
    \/ PlaceStopLimitOrder

SpecAdapter == InitAdapter /\ [][NextAdapter]_vars

----------------------------------------------------------------------------
(* Properties. *)

OrderCalls == {i \in 1 .. Len(calls) : calls[i].api = "futures_create_order"}
OrderSent == OrderCalls # {}

(* the run is a trade attempt: a CLI run or a "Place order" click *)
IsAttempt == input.button \in {"run", "place_order"}

(* C1: whenever a run ends in a local validation failure, no remote call of any *)
(* kind (ping, server time, mark price, order) has been made in that run.       *)
C1_ValidationBeforeAnyCall ==
    (IsAttempt /\ outcome = "LocalValidationFailure") => calls = <<>>

(* C2: once the notional check has run with a price to work from (the limit      *)
(* price, or a mark price that was fetched), it blocks exactly when price times  *)
(* quantity is below 100, a product of exactly 100 passing; and a blocked run    *)
(* never makes the order call.                                                   *)
C2_GuardBlocksBelowMinimum ==
    LET available == args.type # "MARKET" \/ mark.kind = "ok"
        px == IF args.type = "MARKET" THEN mark.markPrice ELSE args.price.val
    IN  /\ (IsAttempt /\ guard # "none" /\ available) =>
              ((guard = "block") <=> (px * args.quantity.val < 100))
        /\ guard = "block" =>
              (~OrderSent /\ pc = "done" /\ outcome = "GuardBlocked")

(* C2 witness: an estimate of exactly 100 was allowed and the order was sent *)
C2_Witness ==
    /\ guard = "allow" /\ args.type = "LIMIT"
    /\ args.price.val * args.quantity.val = 100
    /\ OrderSent

(* C3: a run makes at most one order call, and whatever that call answered, the *)
(* run is over after it.                                                        *)
C3_AtMostOneSubmission ==
    /\ Cardinality(OrderCalls) <= 1
    /\ OrderSent => pc = "done"

(* C3 witness: the order call failed at the request level and the run ended *)
C3_Witness ==
    OrderSent /\ response.kind = "request_exc" /\ pc = "done"

(* C4: no run ends in an uncaught exception, whichever remote call failed. *)
C4_NoUncaughtFailure == outcome # "Crash"

(* C5: when the mark-price fetch of a MARKET attempt fails or returns no usable *)
(* price, the check allows, a warning is shown, and the run goes on to the      *)
(* order call, its outcome being that of the order call.                        *)
C5_GuardFailsOpen ==
    (IsAttempt /\ args.type = "MARKET" /\ mark.kind \in {"error", "malformed"}) =>
        /\ guard = "allow"
        /\ "could not check notional" \in warnings
        /\ pc \in {"order", "done"}
        /\ pc = "done" =>
              /\ OrderSent
              /\ outcome \in {"Accepted", "RejectedByExchange", "TransportFailure",
                              "UnclassifiedFailure"}

(* C5 witness: the fetch failed and the order was sent and accepted *)
C5_Witness ==
    /\ args.type = "MARKET" /\ mark.kind = "error"
    /\ OrderSent /\ outcome = "Accepted"

(* C6: the clock synchronisation step sets the offset to server time minus local *)
(* time when the fetch succeeds; on an error or a malformed answer it leaves the *)
(* offset as it was, records a warning, raises nothing, and the constructor      *)
(* returns to its caller.                                                        *)
C6_SyncNeverFails ==
    [][pc = "sync_time" =>
          /\ sync'.kind = "ok" => offset' = sync'.serverTime - sync'.local_ms
          /\ sync'.kind # "ok" =>
                (offset' = offset /\ "could not sync time" \in warnings')
          /\ outcome' = "none"
          /\ pc' \in {"check_fields", "sidebar", "call"}]_vars

(* C6 witness: the answer was malformed, the offset is still zero, a warning is *)
(* recorded and the run went on past the constructor                            *)
C6_Witness ==
    /\ sync.kind = "malformed" /\ offset = 0
    /\ "could not sync time" \in warnings
    /\ pc = "notional"

C8_NoOrderWithNonPositiveQuantity ==
    \A i \in OrderCalls : calls[i].params.quantity > 0

(* what was typed for a price: nothing, or a number that is not positive *)
AbsentOrNonPositive(x) == IsNone(x) \/ (IsNum(x) /\ x.val <= 0)

InvalidForKind(in) ==
    \/ in.type = "LIMIT" /\ AbsentOrNonPositive(in.price)
    \/ in.type = "STOP_LIMIT"
          /\ (AbsentOrNonPositive(in.price) \/ AbsentOrNonPositive(in.stop_price))

(* C9: a LIMIT attempt whose price is absent or not positive, and a STOP_LIMIT   *)
(* attempt whose price or stop price is absent or not positive, ends in a local  *)
(* validation failure with no order call made; a MARKET attempt does not fail    *)
(* the required-field checks for lacking a price or a stop price.                *)
C9_InvalidPriceRejectedLocally ==
    /\ (IsAttempt /\ InvalidForKind(input)) =>
          /\ ~OrderSent
          /\ pc = "done" => outcome = "LocalValidationFailure"
    /\ (IsAttempt /\ input.type = "MARKET" /\ pc = "check_fields"
          /\ args.symbol # "" /\ args.quantity.val > 0) =>
          ~FieldError(caller, args)

(* the part of C9 that holds of every run: no order call for such an attempt, *)
(* and the required-field checks, once reached, end it                        *)
C9_NoOrderForInvalidPrice ==
    (IsAttempt /\ InvalidForKind(input)) =>
        /\ ~OrderSent
        /\ pc \notin {"notional", "order"}
        /\ pc = "done" => outcome \in {"LocalValidationFailure", "Crash"}

MarketFields == {"symbol", "side", "type", "quantity", "recvWindow"}

(* C10: the fields of an order request depend on the order type alone: MARKET    *)
(* carries symbol, side, type, quantity (and the receive window every request    *)
(* carries) and no price, stopPrice or timeInForce, whatever else was typed;     *)
(* LIMIT adds exactly price and timeInForce; STOP_LIMIT goes out as type STOP    *)
(* and adds price, stopPrice, timeInForce and workingType = MARK_PRICE.          *)
C10_FieldsByKind ==
    \A i \in OrderCalls :
        LET req == calls[i].params
        IN  /\ {"symbol", "side", "type", "quantity"} \subseteq DOMAIN req
            /\ args.type = "MARKET" =>
                  /\ req.type = "MARKET"
                  /\ DOMAIN req = MarketFields
                  /\ DOMAIN req \cap {"price", "stopPrice", "timeInForce"} = {}
            /\ args.type = "LIMIT" =>
                  /\ req.type = "LIMIT"
                  /\ DOMAIN req = MarketFields \cup {"price", "timeInForce"}
            /\ args.type = "STOP_LIMIT" =>
                  /\ req.type = "STOP"
                  /\ DOMAIN req = MarketFields \cup
                        {"price", "stopPrice", "timeInForce", "workingType"}
                  /\ req.workingType = "MARK_PRICE"

(* C10 witness: a MARKET order went out for a command line that also gave a *)
(* price, a stop price and a time in force other than the default           *)
C10_Witness ==
    /\ OrderSent /\ args.type = "MARKET"
    /\ IsNum(args.price) /\ IsNum(args.stop_price) /\ args.tif = "IOC"

(* the calls the library signs: the account query and the order submission *)
SignedCalls ==
    {i \in 1 .. Len(calls) : calls[i].api \in {"futures_account", "futures_create_order"}}

(* the keyword arguments a call was made with *)
FieldsOf(c) == IF c.params = NoParams THEN {} ELSE DOMAIN c.params

(* C11: every signed request of a run, the account query as well as each kind of *)
(* order submission, carries the receive window and goes out only after the      *)
(* clock synchronisation attempt of its adapter has completed.                   *)
C11_SignedRequestsCarryWindow ==
    \A i \in SignedCalls :
        /\ "recvWindow" \in FieldsOf(calls[i])
        /\ \E j \in 1 .. (i - 1) : calls[j].api = "get_server_time"

(* the part of C11 that holds of every run: a signed request follows the clock *)
(* synchronisation attempt, and every order submission carries the window      *)
C11_SignedAfterSync ==
    /\ \A i \in SignedCalls :
          /\ sync.kind # "none"
          /\ \E j \in 1 .. (i - 1) : calls[j].api = "get_server_time"
    /\ \A i \in OrderCalls : calls[i].params.recvWindow = RecvWindow

====
